---- MODULE Spec2Model ----
(***************************************************************************)
(* Adaptive truncated-BPTT training loop of multi_training.py: the chunk   *)
(* scheduler (get_next_chunknum, max_working_fr), the live simulation      *)
(* state and its gray snapshot, the OOM retry loop and the epoch driver.   *)
(***************************************************************************)
EXTENDS Integers, Naturals, Sequences, FiniteSets, TLC

(* ---------------------------- bounds ----------------------------------- *)
MaxSeqLen == 3        \* flags.seq_len ranges over 1..MaxSeqLen
MaxEpochs == 2        \* flags.n_epochs
MaxOOM == 2           \* ResourceExhaustedErrors caught by the try, per run
MaxState == 1         \* abstract values of the simulation state: 0..MaxState
MaxFnLen == 12        \* seq_len range when get_next_chunknum is called alone
MaxAngle == 540       \* stimulus and tuning angles, whole degrees 0..MaxAngle
MaxVolt == 2          \* membrane voltages, whole units -MaxVolt..MaxVolt
MaxNeurons == 3       \* flags.neurons when the rate loss is called alone

(* ----------------------- program constants ----------------------------- *)
steps_per_epoch == 2
val_steps == 1
zero_state == 0

VARIABLES
    pc,               \* position of main in the training section
    seq_len,          \* flags.seq_len
    reset_every_step, \* flags.reset_every_step
    epoch, step, vstep, j,      \* loop counters (range() indices)
    chunknum,         \* current truncation divisor
    max_working_fr,   \* dict chunknum -> best observed mean firing rate
    state_variables,  \* the live simulation state
    gray_state,       \* main's gray_state snapshot (None before capture)
    params,           \* model.trainable_variables, written relative to their
                      \* value when the current step began: the number of
                      \* optimizer.apply_gradients rounds applied since then
    train_firing_rate,\* keras Mean metric: [total, count]
    val_firing_rate,  \* keras Mean metric: [total, count]
    stop,             \* value returned by callbacks.on_epoch_end
    ooms,             \* number of ResourceExhaustedErrors caught so far
    attempt,          \* iteration of the while True loop of the step
    seg_order,        \* history: chunk indices run in the current attempt
    last_call,        \* history: the latest distributed_train_step of the
                      \* current attempt or the latest validation step of
                      \* the epoch, <<>> before the first
    checkpoints,      \* history: state overwrites in the current attempt
    grad_rounds,      \* history: apply_gradients rounds in the attempt
    fn_chunknum, fn_seq_len, fn_direction, fn_result, \* a lone call
    call_name,        \* the function or method called alone, "none" in a run
    call_args,        \* its arguments, a record
    call_result       \* its outcome, a record

flagVars == <<seq_len, reset_every_step>>
loopVars == <<epoch, step, vstep>>
schedVars == <<chunknum, max_working_fr>>
metricVars == <<train_firing_rate, val_firing_rate>>
attemptVars == <<j, attempt, seg_order, last_call, checkpoints, grad_rounds>>
callVars == <<call_name, call_args, call_result>>
fnVars == <<fn_chunknum, fn_seq_len, fn_direction, fn_result, callVars>>

runVars == <<flagVars, loopVars, schedVars, metricVars, attemptVars,
             state_variables, gray_state, params, stop, ooms>>

vars == <<pc, runVars, fnVars>>

\* reduce_mean of a chunk's spikes, the chunk abstracted to one 0/1 sample
Rates == {0, 1}
StateVals == 0..MaxState

(* ---------------------- get_next_chunknum ------------------------------ *)
Returned(v) == [raised |-> "none", value |-> v]
Raised(e) == [raised |-> e, value |-> 0]

RECURSIVE UpLoop_NoClamp(_, _)
\* UpLoop returning chunknum, not seq_len, when the search passes seq_len
UpLoop_NoClamp(c, L) ==
    IF L % c = 0 THEN c
    ELSE IF c + 1 >= L THEN c + 1
    ELSE UpLoop_NoClamp(c + 1, L)

RECURSIVE UpLoop(_, _)
\* while seq_len % chunknum != 0: chunknum += 1; if chunknum >= seq_len: return seq_len
UpLoop(c, L) ==
    IF L % c = 0 THEN c
    ELSE IF c + 1 >= L THEN L
    ELSE UpLoop(c + 1, L)

RECURSIVE DownLoop(_, _)
\* while seq_len % chunknum != 0: chunknum -= 1; if chunknum <= 1: return 1
\* (seq_len % 0 raises ZeroDivisionError)
DownLoop(c, L) ==
    IF c = 0 THEN Raised("ZeroDivisionError")
    ELSE IF L % c = 0 THEN Returned(c)
    ELSE IF c - 1 <= 1 THEN Returned(1)
    ELSE DownLoop(c - 1, L)

\* get_next_chunknum growing by one without the divisor search
get_next_chunknum_NoDivisorSearch(c, L, direction) ==
    IF direction = "up" THEN Returned(c + 1)
    ELSE IF direction = "down" THEN DownLoop(c - 1, L)
    ELSE Raised("ValueError")

get_next_chunknum(c, L, direction) ==
    IF direction = "up" THEN Returned(UpLoop(c + 1, L))
    ELSE IF direction = "down" THEN DownLoop(c - 1, L)
    ELSE Raised("ValueError")

(* ---------------- a lone call of get_next_chunknum --------------------- *)
NoResult == [raised |-> "pending", value |-> 0]

\* no other function is being called alone
NoCall ==
    /\ call_name = "none"
    /\ call_args = <<>>
    /\ call_result = NoResult

CallUp ==
    /\ pc = "call"
    /\ fn_direction = "up"
    /\ fn_result' = get_next_chunknum(fn_chunknum, fn_seq_len, "up")
    /\ pc' = "returned"
    /\ UNCHANGED <<runVars, fn_chunknum, fn_seq_len, fn_direction, callVars>>

CallDown ==
    /\ pc = "call"
    /\ fn_direction = "down"
    /\ fn_result' = get_next_chunknum(fn_chunknum, fn_seq_len, "down")
    /\ pc' = "returned"
    /\ UNCHANGED <<runVars, fn_chunknum, fn_seq_len, fn_direction, callVars>>

(* -------------------- float values as rationals ------------------------ *)
\* A float is [n, d]: n/d for d > 0, nan for 0/0, +inf for n/0 with n > 0.
RECURSIVE GCD(_, _)
GCD(a, b) == IF b = 0 THEN a ELSE GCD(b, a % b)

Rat(n, d) ==
    IF d = 0 THEN [n |-> IF n = 0 THEN 0 ELSE 1, d |-> 0]
    ELSE IF n = 0 THEN [n |-> 0, d |-> 1]
    ELSE [n |-> n \div GCD(n, d), d |-> d \div GCD(n, d)]

IsNaN(a) == a.n = 0 /\ a.d = 0
IsInf(a) == a.n > 0 /\ a.d = 0

\* a < b on floats: every comparison with nan is False
FloatLess(a, b) ==
    IF IsNaN(a) \/ IsNaN(b) THEN FALSE
    ELSE IF IsInf(a) THEN FALSE
    ELSE IF IsInf(b) THEN TRUE
    ELSE a.n * b.d < b.n * a.d

\* a / b on numpy floats (division by zero yields inf or nan, no exception)
FloatDiv(a, b) == Rat(a.n * b.d, a.d * b.n)

\* Python max(a, b): b only when b > a
FloatMax(a, b) == IF FloatLess(a, b) THEN b ELSE a

(* ------------------------- keras Mean metric --------------------------- *)
EmptyMean == [total |-> 0, count |-> 0]
update_state(m, v) == [total |-> m.total + v, count |-> m.count + 1]
\* result() is div_no_nan(total, count)
result(m) == IF m.count = 0 THEN Rat(0, 1) ELSE Rat(m.total, m.count)

(* ----------------------------- reset_state ----------------------------- *)
NoState == 0 - 1      \* Python None / nothing recorded

\* reset_state whose 'gray' branch assigns nothing
reset_state_GrayAssignsNothing(live, reset_type, new_state) ==
    IF reset_type = "zero" THEN [raised |-> "none", state |-> zero_state]
    ELSE IF reset_type = "gray" THEN [raised |-> "none", state |-> live]
    ELSE IF reset_type = "continue" THEN [raised |-> "none", state |-> live]
    ELSE [raised |-> "ValueError", state |-> live]

\* reset_state whose 'continue' branch assigns new_state
reset_state_ContinueAssigns(live, reset_type, new_state) ==
    IF reset_type = "zero" THEN [raised |-> "none", state |-> zero_state]
    ELSE IF reset_type = "gray" THEN [raised |-> "none", state |-> new_state]
    ELSE IF reset_type = "continue" THEN [raised |-> "none", state |-> new_state]
    ELSE [raised |-> "ValueError", state |-> live]

\* reset_state treating every other name as 'zero'
reset_state_UnknownIsZero(live, reset_type, new_state) ==
    IF reset_type = "gray" THEN [raised |-> "none", state |-> new_state]
    ELSE IF reset_type = "continue" THEN [raised |-> "none", state |-> live]
    ELSE [raised |-> "none", state |-> zero_state]

reset_state(live, reset_type, new_state) ==
    IF reset_type = "zero" THEN [raised |-> "none", state |-> zero_state]
    ELSE IF reset_type = "gray" THEN [raised |-> "none", state |-> new_state]
    ELSE IF reset_type = "continue" THEN [raised |-> "none", state |-> live]
    ELSE [raised |-> "ValueError", state |-> live]

\* distributed_reset_state: rolled is the state the gray roll-out produces
\* when gray_state is None; ret is the returned value.
distributed_reset_state(live, reset_type, gs, rolled) ==
    IF reset_type = "gray"
    THEN IF gs = NoState
         THEN [raised |-> "none",
               state |-> reset_state(rolled, reset_type, rolled).state,
               ret |-> rolled]
         ELSE [raised |-> "none",
               state |-> reset_state(live, reset_type, gs).state,
               ret |-> NoState]
    ELSE [raised |-> reset_state(live, reset_type, zero_state).raised,
          state |-> reset_state(live, reset_type, zero_state).state,
          ret |-> NoState]

(* --------------------- chunk scheduler bookkeeping --------------------- *)
\* update_max_working_fr storing the step's rate without the max
update_max_working_fr_Overwrite(m, c, fr) ==
    [k \in DOMAIN m \cup {c} |-> IF k = c THEN fr ELSE m[k]]

\* lines 521-524: record the step's rate for the chunknum it ran at
update_max_working_fr(m, c, fr) ==
    [k \in DOMAIN m \cup {c} |->
        IF k = c
        THEN IF c \notin DOMAIN m THEN fr ELSE FloatMax(m[c], fr)
        ELSE m[k]]

\* shrink_decision comparing with <= against the recorded rate
shrink_decision_LessOrEqual(c, L, fr, m) ==
    IF c > 1
    THEN LET chunknum_down == get_next_chunknum(c, L, "down").value
         IN IF chunknum_down \in DOMAIN m
            THEN IF ~FloatLess(m[chunknum_down], fr) THEN chunknum_down ELSE c
            ELSE LET fr_ratio == FloatDiv(fr, m[c])
                     chunknum_ratio == Rat(chunknum_down, c)
                 IN IF FloatLess(fr_ratio, chunknum_ratio)
                    THEN chunknum_down ELSE c
    ELSE c

\* shrink_decision with chunknum_ratio = chunknum / chunknum_down
shrink_decision_InvertedRatio(c, L, fr, m) ==
    IF c > 1
    THEN LET chunknum_down == get_next_chunknum(c, L, "down").value
         IN IF chunknum_down \in DOMAIN m
            THEN IF FloatLess(fr, m[chunknum_down]) THEN chunknum_down ELSE c
            ELSE LET fr_ratio == FloatDiv(fr, m[c])
                     chunknum_ratio == Rat(c, chunknum_down)
                 IN IF FloatLess(fr_ratio, chunknum_ratio)
                    THEN chunknum_down ELSE c
    ELSE c

\* lines 526-537: the chunknum after a completed step; m is the updated dict
shrink_decision(c, L, fr, m) ==
    IF c > 1
    THEN LET chunknum_down == get_next_chunknum(c, L, "down").value
         IN IF chunknum_down \in DOMAIN m
            THEN IF FloatLess(fr, m[chunknum_down]) THEN chunknum_down ELSE c
            ELSE LET fr_ratio == FloatDiv(fr, m[c])
                     chunknum_ratio == Rat(chunknum_down, c)
                 IN IF FloatLess(fr_ratio, chunknum_ratio)
                    THEN chunknum_down ELSE c
    ELSE c

(* ------------------------------ main ----------------------------------- *)
n_epochs == MaxEpochs

\* the history of a chunk-loop attempt, cleared when one begins or ends
\* (last_call is cleared when the epoch ends too)
NewAttempt ==
    /\ j' = 0
    /\ seg_order' = <<>>
    /\ last_call' = <<>>
    /\ checkpoints' = 0
    /\ grad_rounds' = 0

\* everything but pc, the flags and the lone call's variables
RunInit ==
    /\ epoch = 0 /\ step = 0 /\ vstep = 0 /\ j = 0
    /\ chunknum = 1
    /\ max_working_fr = [k \in {} |-> Rat(0, 1)]
    /\ state_variables = zero_state
    /\ gray_state = NoState
    /\ params = 0
    /\ train_firing_rate = EmptyMean
    /\ val_firing_rate = EmptyMean
    /\ stop = FALSE
    /\ ooms = 0
    /\ attempt = 0
    /\ seg_order = <<>>
    /\ last_call = <<>>
    /\ checkpoints = 0 /\ grad_rounds = 0

\* lines 260-263, 466-477: state after callbacks.on_train_begin()
Init ==
    /\ pc = "epoch_start"
    /\ seq_len \in 1..MaxSeqLen
    /\ reset_every_step \in BOOLEAN
    /\ RunInit
    /\ fn_chunknum = 1 /\ fn_seq_len = 1 /\ fn_direction = "up"
    /\ fn_result = NoResult
    /\ NoCall

\* lines 479-484: gray_state = distributed_reset_state('gray')
EpochStart ==
    /\ pc = "epoch_start"
    /\ \E rolled \in StateVals :
         LET r == distributed_reset_state(state_variables, "gray", NoState, rolled)
         IN /\ state_variables' = r.state
            /\ gray_state' = r.ret
    /\ step' = 0
    /\ pc' = "step_start"
    /\ UNCHANGED <<flagVars, epoch, vstep, schedVars, metricVars, attemptVars,
                   params, stop, ooms, fnVars>>

\* lines 488-495: reset to the gray state and fetch the step's batch
StepStart ==
    /\ pc = "step_start"
    /\ \E rolled \in StateVals :
         state_variables' =
             IF reset_every_step
             THEN distributed_reset_state(state_variables, "gray", NoState, rolled).state
             ELSE distributed_reset_state(state_variables, "gray", gray_state, rolled).state
    /\ attempt' = 0
    /\ params' = 0
    /\ NewAttempt
    /\ pc' = "chunk_loop"
    /\ UNCHANGED <<flagVars, loopVars, schedVars, metricVars, gray_state,
                   stop, ooms, fnVars>>

\* the record of one distributed_train_step call
Call(t, initial_state, new_state) ==
    [trim |-> t, read |-> initial_state, written |-> new_state]

\* TrainStep whose roll_out does not overwrite state_variables
TrainStep_NoStateOverwrite ==
    /\ pc = "chunk_loop"
    /\ \E new_state \in StateVals, rate \in Rates :
         /\ last_call' = <<Call(chunknum = 1, state_variables, new_state)>>
         /\ train_firing_rate' = update_state(train_firing_rate, rate)
    /\ params' = params + 1
    /\ grad_rounds' = grad_rounds + 1
    /\ seg_order' = Append(seg_order, j)
    /\ j' = j + 1
    /\ pc' = IF j + 1 < chunknum THEN "chunk_loop" ELSE "step_end"
    /\ UNCHANGED <<flagVars, loopVars, schedVars, val_firing_rate, attempt,
                   gray_state, stop, ooms, fnVars, state_variables,
                   checkpoints>>

\* lines 500-506, 344-346, 320-341, 290-309: distributed_train_step on chunk j
\* (forward pass from the live state, state overwrite, train metric updates,
\* gradients applied), then the next chunk or the break
TrainStep ==
    /\ pc = "chunk_loop"
    /\ \E new_state \in StateVals, rate \in Rates :
         /\ last_call' = <<Call(chunknum = 1, state_variables, new_state)>>
         /\ state_variables' = new_state
         /\ train_firing_rate' = update_state(train_firing_rate, rate)
    /\ checkpoints' = checkpoints + 1
    /\ params' = params + 1
    /\ grad_rounds' = grad_rounds + 1
    /\ seg_order' = Append(seg_order, j)
    /\ j' = j + 1
    /\ pc' = IF j + 1 < chunknum THEN "chunk_loop" ELSE "step_end"
    /\ UNCHANGED <<flagVars, loopVars, schedVars, val_firing_rate, attempt,
                   gray_state, stop, ooms, fnVars>>

\* lines 507-515: distributed_train_step on chunk j raises
\* ResourceExhaustedError: grow chunknum and run the while True body again
OOMRetry ==
    /\ pc = "chunk_loop"
    /\ ooms < MaxOOM
    /\ ooms' = ooms + 1
    /\ chunknum' = get_next_chunknum(chunknum, seq_len, "up").value
    /\ attempt' = attempt + 1
    /\ NewAttempt
    /\ pc' = "chunk_loop"
    /\ UNCHANGED <<flagVars, loopVars, max_working_fr, metricVars,
                   state_variables, gray_state, params, stop, fnVars>>

\* lines 517-541: read the metrics, update the record, decide the shrink,
\* report the step and reset the train metrics
StepEnd ==
    /\ pc = "step_end"
    /\ LET current_fr == result(train_firing_rate)
           m == update_max_working_fr(max_working_fr, chunknum, current_fr)
       IN /\ max_working_fr' = m
          /\ chunknum' = shrink_decision(chunknum, seq_len, current_fr, m)
    /\ train_firing_rate' = EmptyMean
    /\ attempt' = 0
    /\ NewAttempt
    /\ step' = step + 1
    /\ vstep' = 0
    /\ pc' = IF step + 1 < steps_per_epoch THEN "step_start"
             ELSE IF val_steps > 0 THEN "val_reset" ELSE "epoch_end"
    /\ UNCHANGED <<flagVars, epoch, val_firing_rate, state_variables,
                   gray_state, params, stop, ooms, fnVars>>

\* lines 549-551: next batch, distributed_reset_state('gray', gray_state)
ValReset ==
    /\ pc = "val_reset"
    /\ state_variables' =
         distributed_reset_state(state_variables, "gray", gray_state, NoState).state
    /\ pc' = "validation_step"
    /\ UNCHANGED <<flagVars, loopVars, schedVars, metricVars, attemptVars,
                   gray_state, params, stop, ooms, fnVars>>

\* ValidationStep applying gradients as a train step does
ValidationStep_AppliesGradients ==
    /\ pc = "validation_step"
    /\ \E new_state \in StateVals, rate \in Rates :
         /\ last_call' = <<Call(TRUE, state_variables, new_state)>>
         /\ state_variables' = new_state
         /\ val_firing_rate' = update_state(val_firing_rate, rate)
    /\ params' = params + 1
    /\ vstep' = vstep + 1
    /\ pc' = IF vstep + 1 < val_steps THEN "val_reset" ELSE "epoch_end"
    /\ UNCHANGED <<flagVars, epoch, step, schedVars, train_firing_rate,
                   j, attempt, seg_order, checkpoints, grad_rounds,
                   gray_state, stop, ooms, fnVars>>

\* lines 552, 370-375, 354-367, 290-309: forward pass from the live state
\* (roll_out's default trim=True), state overwrite, validation metric updates
ValidationStep ==
    /\ pc = "validation_step"
    /\ \E new_state \in StateVals, rate \in Rates :
         /\ last_call' = <<Call(TRUE, state_variables, new_state)>>
         /\ state_variables' = new_state
         /\ val_firing_rate' = update_state(val_firing_rate, rate)
    /\ vstep' = vstep + 1
    /\ pc' = IF vstep + 1 < val_steps THEN "val_reset" ELSE "epoch_end"
    /\ UNCHANGED <<flagVars, epoch, step, schedVars, train_firing_rate,
                   j, attempt, seg_order, checkpoints, grad_rounds,
                   gray_state, params, stop, ooms, fnVars>>

\* EpochEnd going on to the next epoch whatever on_epoch_end returned
EpochEnd_IgnoresStop ==
    /\ pc = "epoch_end"
    /\ \E s \in BOOLEAN : stop' = s
    /\ val_firing_rate' = EmptyMean
    /\ epoch' = epoch + 1
    /\ pc' = IF epoch + 1 < n_epochs THEN "epoch_start" ELSE "train_end"
    /\ last_call' = <<>>
    /\ UNCHANGED <<flagVars, step, vstep, schedVars, train_firing_rate,
                   j, attempt, seg_order, checkpoints, grad_rounds,
                   state_variables, gray_state, params, ooms, fnVars>>

\* lines 554-566: stop = callbacks.on_epoch_end(...); break or next epoch
EpochEnd ==
    /\ pc = "epoch_end"
    /\ \E s \in BOOLEAN :
         /\ stop' = s
         /\ IF s
            THEN /\ pc' = "train_end"
                 /\ UNCHANGED <<epoch, val_firing_rate>>
            ELSE /\ val_firing_rate' = EmptyMean
                 /\ epoch' = epoch + 1
                 /\ pc' = IF epoch + 1 < n_epochs THEN "epoch_start"
                          ELSE "train_end"
    /\ last_call' = <<>>
    /\ UNCHANGED <<flagVars, step, vstep, schedVars, train_firing_rate,
                   j, attempt, seg_order, checkpoints, grad_rounds,
                   state_variables, gray_state, params, ooms, fnVars>>

\* line 568: callbacks.on_train_end(metric_values)
TrainEnd ==
    /\ pc = "train_end"
    /\ pc' = "done"
    /\ UNCHANGED <<runVars, fnVars>>

\* a ResourceExhaustedError outside the try (the gray roll-out of lines
\* 430-433, the validation step of line 552) leaves main
UncaughtOOM ==
    /\ \/ /\ pc = "epoch_start" \/ (pc = "step_start" /\ reset_every_step)
          /\ state_variables' = zero_state
       \/ /\ pc = "validation_step"
          /\ UNCHANGED state_variables
    /\ pc' = "fatal"
    /\ UNCHANGED <<flagVars, loopVars, schedVars, metricVars, attemptVars,
                   gray_state, params, stop, ooms, fnVars>>

Next ==
    \/ EpochStart
    \/ StepStart
    \/ TrainStep
    \/ OOMRetry
    \/ StepEnd
    \/ ValReset
    \/ ValidationStep
    \/ EpochEnd
    \/ TrainEnd
    \/ UncaughtOOM

Spec == Init /\ [][Next]_vars

(* ------------------- get_next_chunknum called alone -------------------- *)
FnInit ==
    /\ pc = "call"
    /\ fn_seq_len \in 1..MaxFnLen
    /\ fn_chunknum \in 1..fn_seq_len
    /\ fn_direction \in {"up", "down"}
    /\ fn_result = NoResult
    /\ seq_len = 1
    /\ reset_every_step = FALSE
    /\ RunInit
    /\ NoCall

FnNext == CallUp \/ CallDown

FnSpec == FnInit /\ [][FnNext]_vars

\* everything a lone call leaves at its initial value
IdleRun ==
    /\ seq_len = 1
    /\ reset_every_step = FALSE
    /\ RunInit
    /\ fn_chunknum = 1 /\ fn_seq_len = 1 /\ fn_direction = "up"
    /\ fn_result = NoResult

idleVars == <<runVars, fn_chunknum, fn_seq_len, fn_direction, fn_result>>

(* ------------- reset_state, distributed_reset_state called alone ------- *)
\* the three policy names and two names that are none of them
ResetTypes == {"zero", "gray", "continue", "grey", "none"}

\* strategy.run(reset_state, args=(reset_type, new_state)) on a live state
ResetInit ==
    /\ pc = "call"
    /\ IdleRun
    /\ \/ /\ call_name = "reset_state"
          /\ call_args \in [live : StateVals, reset_type : ResetTypes,
                             new_state : StateVals]
       \/ /\ call_name = "distributed_reset_state"
          /\ call_args \in [live : StateVals, reset_type : ResetTypes,
                             gray_state : StateVals \cup {NoState},
                             rolled : StateVals]
    /\ call_result = NoResult

CallResetState ==
    /\ pc = "call"
    /\ call_name = "reset_state"
    /\ LET r == reset_state(call_args.live, call_args.reset_type,
                            call_args.new_state)
       IN call_result' = [raised |-> r.raised, state |-> r.state,
                          ret |-> NoState]
    /\ pc' = "returned"
    /\ UNCHANGED <<idleVars, call_name, call_args>>

CallDistributedResetState ==
    /\ pc = "call"
    /\ call_name = "distributed_reset_state"
    /\ call_result' = distributed_reset_state(call_args.live,
                           call_args.reset_type, call_args.gray_state,
                           call_args.rolled)
    /\ pc' = "returned"
    /\ UNCHANGED <<idleVars, call_name, call_args>>

ResetNext == CallResetState \/ CallDistributedResetState

ResetSpec == ResetInit /\ [][ResetNext]_vars

(* ------------------- float arithmetic of the losses -------------------- *)
FloatAdd(a, b) == Rat(a.n * b.d + b.n * a.d, a.d * b.d)
FloatSub(a, b) == Rat(a.n * b.d - b.n * a.d, a.d * b.d)
FloatMul(a, b) == Rat(a.n * b.n, a.d * b.d)
FloatAbs(a) == [n |-> IF a.n < 0 THEN 0 - a.n ELSE a.n, d |-> a.d]
relu(a) == IF a.n > 0 THEN a ELSE Rat(0, 1)
square(a) == FloatMul(a, a)

RECURSIVE reduce_sum(_)
\* tf.reduce_sum of a vector of floats (0 for an empty one)
reduce_sum(xs) ==
    IF xs = <<>> THEN Rat(0, 1)
    ELSE FloatAdd(xs[1], reduce_sum(Tail(xs)))

\* tf.reduce_mean of a vector of floats: sum / size, 0/0 = nan when empty
reduce_mean(xs) ==
    IF xs = <<>> THEN Rat(0, 0)
    ELSE FloatDiv(reduce_sum(xs), Rat(Len(xs), 1))

RECURSIVE boolean_mask(_, _)
\* tf.boolean_mask / x[mask]: the entries of xs where mask is True, in order
boolean_mask(xs, mask) ==
    IF xs = <<>> THEN <<>>
    ELSE (IF mask[1] THEN <<xs[1]>> ELSE <<>>)
             \o boolean_mask(Tail(xs), Tail(mask))

\* core_mask=None, and a core mask over n neurons
NoMask == [present |-> FALSE, mask |-> <<>>]
CoreMasks(n) == [present : {TRUE}, mask : [1..n -> BOOLEAN]]

(* --------------- OrientationSelectivityLoss.calculate_delta_angle ------ *)
\* tf.where on one element
where(cond, x, y) == IF cond THEN x ELSE y

\* one (stimulus, neuron) entry of the broadcast difference
calculate_delta_angle(stim_angle, tuning_angle) ==
    LET d0 == stim_angle - tuning_angle
        d1 == where(d0 > 90, d0 - 180, d0)
        d2 == where(d1 < 0 - 90, d1 + 180, d1)
        d3 == where(d2 > 90, d2 - 180, d2)
        d4 == where(d3 < 0 - 90, d3 + 180, d3)
    IN d4

AngleInit ==
    /\ pc = "call"
    /\ IdleRun
    /\ call_name = "calculate_delta_angle"
    /\ call_args \in [stim_angle : 0..MaxAngle, tuning_angle : 0..MaxAngle]
    /\ call_result = NoResult

CallCalculateDeltaAngle ==
    /\ pc = "call"
    /\ call_name = "calculate_delta_angle"
    /\ call_result' = Returned(calculate_delta_angle(call_args.stim_angle,
                                                     call_args.tuning_angle))
    /\ pc' = "returned"
    /\ UNCHANGED <<idleVars, call_name, call_args>>

AngleNext == CallCalculateDeltaAngle

AngleSpec == AngleInit /\ [][AngleNext]_vars

(* ------------------- VoltageRegularization.__call__ -------------------- *)
voltage_cost == Rat(1, 100000)

\* v_pos + v_neg of one normalized voltage
voltage_penalty(voltage_32) ==
    LET v_pos == square(relu(FloatSub(voltage_32, Rat(1, 1))))
        v_neg == square(relu(FloatAdd(FloatSub(Rat(0, 1), voltage_32),
                                      Rat(1, 1))))
    IN FloatAdd(v_pos, v_neg)

\* voltages: a sequence of rows (batch x time), each a sequence over neurons
VoltageRegularization_call(voltages, core_mask, voltage_offset, voltage_scale) ==
    LET masked == [b \in DOMAIN voltages |->
                      IF core_mask.present
                      THEN boolean_mask(voltages[b], core_mask.mask)
                      ELSE voltages[b]]
        row_loss == [b \in DOMAIN masked |->
                        reduce_sum([i \in DOMAIN masked[b] |->
                            voltage_penalty(Rat(masked[b][i] - voltage_offset,
                                                voltage_scale))])]
    IN FloatMul(reduce_mean(row_loss), voltage_cost)

VoltVals == (0 - MaxVolt)..MaxVolt

VoltageInit ==
    /\ pc = "call"
    /\ IdleRun
    /\ call_name = "VoltageRegularization"
    /\ \E rows \in 1..2, neurons \in 1..2 :
         call_args \in [voltages : [1..rows -> [1..neurons -> VoltVals]],
                        core_mask : {NoMask} \cup CoreMasks(neurons),
                        voltage_offset : {0, 1},
                        voltage_scale : {1, 2}]
    /\ call_result = NoResult

CallVoltageRegularization ==
    /\ pc = "call"
    /\ call_name = "VoltageRegularization"
    /\ call_result' = Returned(VoltageRegularization_call(call_args.voltages,
                           call_args.core_mask, call_args.voltage_offset,
                           call_args.voltage_scale))
    /\ pc' = "returned"
    /\ UNCHANGED <<idleVars, call_name, call_args>>

VoltageNext == CallVoltageRegularization

VoltageSpec == VoltageInit /\ [][VoltageNext]_vars

(* ------------- the time trimming of the rate and OSI losses ------------ *)
NoDelay == 0 - 1      \* pre_delay=None / post_delay=None
Delays == {NoDelay, 0, 1, 2}

\* Python's x[a:b] on an axis of n entries keeps max(0, n - dropped) of them
sliced(n, dropped) == IF n - dropped > 0 THEN n - dropped ELSE 0

\* spikes[:, pre_delay:, :] then spikes[:, :-post_delay, :]: the number of
\* time steps left of time_steps
trim_spikes(time_steps, pre_delay, post_delay) ==
    LET after_pre == IF pre_delay # NoDelay
                     THEN sliced(time_steps, pre_delay)
                     ELSE time_steps
    IN IF post_delay # NoDelay /\ post_delay # 0
       THEN sliced(after_pre, post_delay)
       ELSE after_pre

\* Python binding positional arguments to a method that declares n_params
\* parameters after self
TooManyArguments(n_params, n_args) == n_args > n_params

\* SpikeRateDistributionTarget.__call__(self, spikes), called with the
\* positional arguments args (args[1] the spikes' time steps): the number of
\* time steps the loss is computed on
SpikeRateDistributionTarget_call(args, pre_delay, post_delay) ==
    IF TooManyArguments(1, Len(args)) THEN Raised("TypeError")
    ELSE Returned(trim_spikes(args[1], pre_delay, post_delay))

\* OrientationSelectivityLoss.__call__(self, spikes, angle), likewise
OrientationSelectivityLoss_call(args, pre_delay, post_delay) ==
    IF TooManyArguments(2, Len(args)) THEN Raised("TypeError")
    ELSE Returned(trim_spikes(args[1], pre_delay, post_delay))

\* the losses of one chunk of a step at chunknum, and the rate loss of the
\* whole sequence when the model is built
TrimInit ==
    /\ pc = "call"
    /\ IdleRun
    /\ call_name \in {"rate_loss", "osi_loss", "rate_loss_build"}
    /\ \E L \in 1..MaxFnLen :
         call_args \in [seq_len : {L},
                        chunknum : {c \in 1..L : L % c = 0},
                        pre_delay : Delays,
                        post_delay : Delays]
    /\ call_result = NoResult

\* the time steps of one chunk: tf.split(x, chunknum, axis=1)
ChunkSteps == call_args.seq_len \div call_args.chunknum

\* lines 500-504, 302: rate_distribution_regularizer(_z, trim)
CallRateLoss ==
    /\ pc = "call"
    /\ call_name = "rate_loss"
    /\ call_result' = SpikeRateDistributionTarget_call(
                          <<ChunkSteps, call_args.chunknum = 1>>,
                          call_args.pre_delay, call_args.post_delay)
    /\ pc' = "returned"
    /\ UNCHANGED <<idleVars, call_name, call_args>>

\* lines 500-504, 303: OSI_Loss(_z, _y, trim)
CallOSILoss ==
    /\ pc = "call"
    /\ call_name = "osi_loss"
    /\ call_result' = OrientationSelectivityLoss_call(
                          <<ChunkSteps, "_y", call_args.chunknum = 1>>,
                          call_args.pre_delay, call_args.post_delay)
    /\ pc' = "returned"
    /\ UNCHANGED <<idleVars, call_name, call_args>>

\* line 215: rate_distribution_regularizer(rsnn_layer.output[0][0])
CallRateLossAtBuild ==
    /\ pc = "call"
    /\ call_name = "rate_loss_build"
    /\ call_result' = SpikeRateDistributionTarget_call(
                          <<call_args.seq_len>>,
                          call_args.pre_delay, call_args.post_delay)
    /\ pc' = "returned"
    /\ UNCHANGED <<idleVars, call_name, call_args>>

TrimNext == CallRateLoss \/ CallOSILoss \/ CallRateLossAtBuild

TrimSpec == TrimInit /\ [][TrimNext]_vars

(* ------------------- compute_spike_rate_target_loss -------------------- *)
\* Vectors are sequences, so every index below is the Python index plus one:
\* the neurons are 1..MaxNeurons and np.where yields positions from 1.
RECURSIVE np_where(_)
\* np.where(mask)[0]: the ascending positions where mask is True
np_where(mask) ==
    IF mask = <<>> THEN <<>>
    ELSE LET n == Len(mask)
         IN np_where(SubSeq(mask, 1, n - 1))
                \o (IF mask[n] THEN <<n>> ELSE <<>>)

\* np.isin(xs, ys): for each entry of xs whether it occurs in ys
np_isin(xs, ys) == [k \in DOMAIN xs |-> \E m \in DOMAIN ys : ys[m] = xs[k]]

\* tf.gather(params, indices)
gather(tensor, indices) == [k \in DOMAIN indices |-> tensor[indices[k]]]

RECURSIVE insert_sorted(_, _)
insert_sorted(x, xs) ==
    IF xs = <<>> THEN <<x>>
    ELSE IF FloatLess(xs[1], x) THEN <<xs[1]>> \o insert_sorted(x, Tail(xs))
    ELSE <<x>> \o xs

RECURSIVE sort(_)
\* tf.sort, ascending
sort(xs) == IF xs = <<>> THEN <<>> ELSE insert_sorted(xs[1], sort(Tail(xs)))

\* tf.random.shuffle(tf.range(n)), the order drawn from a permutation of
\* the neurons
shuffle(n, perm) == SelectSeq(perm, LAMBDA i : i <= n)

kappa == Rat(1, 500)

\* huber_quantile_loss on one element
huber_quantile_loss(u, tau) ==
    LET indicator == IF u.n <= 0 THEN Rat(1, 1) ELSE Rat(0, 1)
        num == FloatAbs(FloatSub(tau, indicator))
        branch_1 == FloatMul(FloatDiv(num, FloatMul(Rat(2, 1), kappa)),
                             square(u))
        branch_2 == FloatMul(num, FloatSub(FloatAbs(u),
                                           FloatMul(Rat(1, 2), kappa)))
    IN where(~FloatLess(kappa, FloatAbs(u)), branch_1, branch_2)

\* compute_spike_rate_distribution_loss: the loss vector of one cell type
compute_spike_rate_distribution_loss(_rates, target_rate, perm) ==
    LET n == Len(target_rate)
        rand_ind == shuffle(n, perm)
        _rate == gather(_rates, rand_ind)
        sorted_rate == sort(_rate)
    IN [k \in 1..n |->
           huber_quantile_loss(FloatSub(target_rate[k], sorted_rate[k]),
                               Rat(k, n))]

\* reduce_mean(_spikes, (0, 1)): the mean over the rows of each neuron
neuron_rates(_spikes) ==
    [i \in DOMAIN _spikes[1] |->
        reduce_mean([t \in DOMAIN _spikes |-> Rat(_spikes[t][i], 1)])]

\* one cell type of the loop of lines 44-55: the indices gathered from rates,
\* the target rates compared and the type's mean loss
rate_loss_of_type(rates, value, core_mask, perm) ==
    LET core_neurons_ids == np_where(core_mask.mask)
        key_core_mask == np_isin(value.neuron_ids, core_neurons_ids)
        neuron_ids == IF core_mask.present THEN np_where(key_core_mask)
                      ELSE value.neuron_ids
        target_rate == IF core_mask.present
                       THEN boolean_mask(value.sorted_target_rates,
                                         key_core_mask)
                       ELSE value.sorted_target_rates
        _rate_type == gather(rates, neuron_ids)
    IN [gathered |-> neuron_ids,
        target_rate |-> target_rate,
        loss |-> reduce_mean(compute_spike_rate_distribution_loss(
                                 _rate_type, target_rate, perm))]

CellTypes == {"a", "b"}

\* compute_spike_rate_target_loss: per-type records and the summed loss
compute_spike_rate_target_loss(_spikes, target_rates, core_mask, perm) ==
    LET rates == neuron_rates(_spikes)
        per_type == [key \in CellTypes |->
                        rate_loss_of_type(rates, target_rates[key],
                                          core_mask, perm)]
    IN [raised |-> "none",
        per_type |-> per_type,
        value |-> FloatAdd(per_type["a"].loss, per_type["b"].loss)]

\* sample_firing_rates: n sorted target rates, here drawn from {0, 1}
SortedTargets(n) ==
    {[k \in 1..n |-> IF k > z THEN Rat(1, 1) ELSE Rat(0, 1)] : z \in 0..n}

\* multi_training.py lines 194-205: the neuron_ids of a cell type, restricted
\* to the core when there is a core mask
type_neuron_ids(node_type_ids, key, core_mask) ==
    np_where([i \in DOMAIN node_type_ids |->
                 /\ node_type_ids[i] = key
                 /\ core_mask.present => core_mask.mask[i]])

RateInit ==
    /\ pc = "call"
    /\ IdleRun
    /\ call_name = "compute_spike_rate_target_loss"
    /\ \E node_type_ids \in [1..MaxNeurons -> CellTypes],
          core_mask \in {NoMask} \cup CoreMasks(MaxNeurons) :
         \E ta \in SortedTargets(Len(type_neuron_ids(node_type_ids, "a", core_mask))),
            tb \in SortedTargets(Len(type_neuron_ids(node_type_ids, "b", core_mask))),
            _spikes \in [1..2 -> [1..MaxNeurons -> {0, 1}]] :
           call_args =
             [_spikes |-> _spikes,
              core_mask |-> core_mask,
              target_rates |->
                [key \in CellTypes |->
                   [neuron_ids |-> type_neuron_ids(node_type_ids, key, core_mask),
                    sorted_target_rates |-> IF key = "a" THEN ta ELSE tb]]]
    /\ call_result = NoResult

CallRateTargetLoss ==
    /\ pc = "call"
    /\ call_name = "compute_spike_rate_target_loss"
    /\ \E perm \in Permutations(1..MaxNeurons) :
         call_result' = compute_spike_rate_target_loss(call_args._spikes,
                            call_args.target_rates, call_args.core_mask, perm)
    /\ pc' = "returned"
    /\ UNCHANGED <<idleVars, call_name, call_args>>

RateNext == CallRateTargetLoss

RateSpec == RateInit /\ [][RateNext]_vars

(* ============================ properties =============================== *)
Divides(d, n) == n % d = 0

\* the smallest divisor of L above c (c < L)
SmallestDivisorAbove(c, L) ==
    CHOOSE d \in (c + 1)..L :
        Divides(d, L) /\ \A e \in (c + 1)..(d - 1) : ~Divides(e, L)

\* the largest divisor of L below c, clamped at 1
LargestDivisorBelow(c, L) ==
    IF c <= 1 THEN 1
    ELSE CHOOSE d \in 1..(c - 1) :
        Divides(d, L) /\ \A e \in (d + 1)..(c - 1) : ~Divides(e, L)

\* a transition of the named part of main
IsTrainStep == pc = "chunk_loop" /\ j' = j + 1
IsOOMRetry == pc = "chunk_loop" /\ ooms' = ooms + 1
IsStepEnd == pc = "step_end" /\ pc' # "step_end"

\* C1: in every reachable state of the run chunknum is an integer in
\* 1..seq_len that evenly divides seq_len.
C1_ChunknumIsDivisor ==
    pc \notin {"call", "returned"} =>
        /\ chunknum \in 1..seq_len
        /\ Divides(chunknum, seq_len)

\* chunknum grew to seq_len = 3 by an OOM and a completed step brought it
\* back to 1
C1_Witness ==
    /\ seq_len = 3
    /\ chunknum = 1
    /\ 3 \in DOMAIN max_working_fr
    /\ ooms >= 1

\* C2 (as claimed): a ResourceExhaustedError caught while chunknum = seq_len
\* leaves the step as a fatal error; the chunk loop is not run again.
C2_TerminalOOMIsFatal ==
    [][(IsOOMRetry /\ chunknum = seq_len) => pc' = "fatal"]_vars

\* C3 (as claimed): when a ResourceExhaustedError aborts a chunk loop in which
\* chunks have applied gradients, the retried loop starts with the trainable
\* variables the step began with.
C3_PartialGradientsDiscarded ==
    [][(IsOOMRetry /\ grad_rounds >= 1) => params' = 0]_vars

\* C4: for a divisor c of L, get_next_chunknum(c, L, 'up') returns the
\* smallest divisor of L above c, and L when c = L.
C4_GrowIsNextDivisor ==
    (pc = "returned" /\ fn_direction = "up" /\ Divides(fn_chunknum, fn_seq_len)) =>
        /\ fn_result.raised = "none"
        /\ fn_result.value =
             IF fn_chunknum = fn_seq_len THEN fn_seq_len
             ELSE SmallestDivisorAbove(fn_chunknum, fn_seq_len)

\* a grow call whose search passes a non-divisor: 4 -> 6 for seq_len 12
C4_Witness ==
    /\ pc = "returned" /\ fn_direction = "up"
    /\ fn_seq_len = 12 /\ fn_chunknum = 4
    /\ fn_result = Returned(6)

MeanBelow(metric, r) == metric.total * r.d < r.n * metric.count

\* C6: a completed step at chunknum c > 1 with a record for chunknum_down
\* moves to chunknum_down exactly when its mean firing rate is strictly below
\* that record and otherwise stays at c; no completed step raises chunknum or
\* moves it past the next smaller divisor.
C6_RecordedShrink ==
    [][IsStepEnd =>
        LET down == LargestDivisorBelow(chunknum, seq_len)
        IN /\ chunknum' \in {chunknum, down}
           /\ chunknum' <= chunknum
           /\ (chunknum > 1 /\ down \in DOMAIN max_working_fr) =>
                (chunknum' = down <=>
                    MeanBelow(train_firing_rate, max_working_fr[down]))]_vars

\* after step 0 ran at chunknum 1 and step 1 at chunknum 2, every rate seen
\* at 2 below the record of 1: the second step shrank on the record
C6_Witness ==
    /\ epoch = 0 /\ step = 2 /\ pc = "val_reset"
    /\ seq_len = 2
    /\ chunknum = 1
    /\ DOMAIN max_working_fr = {1, 2}
    /\ FloatLess(max_working_fr[2], max_working_fr[1])

\* C7: a completed step at chunknum c > 1 with no record for chunknum_down
\* moves to chunknum_down exactly when rate / best[c] < chunknum_down / c,
\* best[c] including the step's own rate; the first completed step at a
\* chunknum never shrinks this way.
C7_SpeculativeShrink ==
    [][(IsStepEnd /\ chunknum > 1
            /\ LargestDivisorBelow(chunknum, seq_len) \notin DOMAIN max_working_fr) =>
        LET down == LargestDivisorBelow(chunknum, seq_len)
            best == max_working_fr'[chunknum]
        IN /\ chunknum' \in {chunknum, down}
           /\ chunknum' = down <=>
                /\ best.n > 0
                /\ train_firing_rate.total * best.d * chunknum
                     < down * best.n * train_firing_rate.count
           /\ chunknum \notin DOMAIN max_working_fr => chunknum' = chunknum]_vars

\* both steps of the first epoch ran above chunknum 1 and the second one
\* shrank to 1 with nothing recorded for 1
C7_Witness ==
    /\ epoch = 0 /\ step = 2 /\ pc = "val_reset"
    /\ chunknum = 1
    /\ 1 \notin DOMAIN max_working_fr
    /\ max_working_fr # <<>>

\* the step's observed mean firing rate total/count is above the float r
MeanAbove(metric, r) == metric.total * r.d > r.n * metric.count

\* a <= b on recorded rates
RateLeq(a, b) == a.n * b.d <= b.n * a.d

\* C8: a completed step sets max_working_fr[chunknum] to the maximum of its
\* previous value (if any) and the step's mean firing rate and leaves the
\* other entries alone; no transition removes or lowers an entry, and outside
\* the OOM growth and the step's shrink decision chunknum is left alone
\* (epoch boundaries included).
C8_RecordIsRunningMax ==
    [][/\ DOMAIN max_working_fr \subseteq DOMAIN max_working_fr'
       /\ \A k \in DOMAIN max_working_fr :
            RateLeq(max_working_fr[k], max_working_fr'[k])
       /\ IsStepEnd =>
            /\ DOMAIN max_working_fr' = DOMAIN max_working_fr \cup {chunknum}
            /\ \A k \in DOMAIN max_working_fr \ {chunknum} :
                 max_working_fr'[k] = max_working_fr[k]
            /\ max_working_fr'[chunknum] =
                 IF chunknum \in DOMAIN max_working_fr
                      /\ ~MeanAbove(train_firing_rate, max_working_fr[chunknum])
                 THEN max_working_fr[chunknum]
                 ELSE Rat(train_firing_rate.total, train_firing_rate.count)
       /\ ~IsStepEnd => max_working_fr' = max_working_fr
       /\ ~(IsStepEnd \/ IsOOMRetry) => chunknum' = chunknum]_vars

\* the second epoch begins above chunknum 1 with the records of the first
C8_Witness ==
    /\ epoch = 1 /\ pc = "step_start" /\ step = 0
    /\ chunknum > 1
    /\ chunknum \in DOMAIN max_working_fr
    /\ max_working_fr[chunknum] = Rat(1, 2)

\* the chunk indices 0..n-1 in order
Ascending(n) == [i \in 1..n |-> i - 1]

\* C9: a chunk loop at chunknum c runs the chunks in index order 0..c-1;
\* chunk i+1 starts from the state chunk i wrote, which is the live state,
\* after chunk i's state overwrite and gradient round; the loop is left
\* exactly after c state overwrites and c gradient rounds.
C9_ChunksAreSequential ==
    [][IsTrainStep =>
        /\ seg_order = Ascending(j)
        /\ seg_order' = Ascending(j + 1)
        /\ checkpoints = j /\ grad_rounds = j
        /\ checkpoints' = j + 1 /\ grad_rounds' = j + 1
        /\ last_call'[1].read = state_variables
        /\ last_call'[1].written = state_variables'
        /\ j >= 1 => last_call'[1].read = last_call[1].written
        /\ pc' = "step_end" <=> j + 1 = chunknum
        /\ pc' = "chunk_loop" <=> j + 1 < chunknum]_vars

\* a first attempt at chunknum 3 ran its three chunks to the end, the last
\* one starting from state 1 and writing state 0
C9_Witness ==
    /\ pc = "step_end"
    /\ chunknum = 3 /\ attempt = 0
    /\ seg_order = <<0, 1, 2>>
    /\ checkpoints = 3 /\ grad_rounds = 3
    /\ last_call = <<Call(FALSE, 1, 0)>>

\* C10: with reset_every_step false, every training step and every
\* validation step starts from the gray_state captured when the epoch began,
\* and gray_state changes only at that capture, where it is the state the
\* gray roll-out produced.
C10_GraySnapshotIsStepStart ==
    [][~reset_every_step =>
        /\ (pc = "chunk_loop" /\ j = 0 /\ attempt = 0) =>
              state_variables = gray_state
        /\ pc = "validation_step" => state_variables = gray_state
        /\ gray_state' # gray_state =>
              /\ pc = "epoch_start"
              /\ gray_state' = state_variables']_vars

\* the second step of the second epoch starts from the gray state 1 after
\* chunks and a validation step have run
C10_Witness ==
    /\ ~reset_every_step
    /\ epoch = 1 /\ step = 1
    /\ pc = "chunk_loop" /\ j = 0 /\ attempt = 0
    /\ gray_state = 1
    /\ state_variables = 1

\* a reset request has returned or raised
ResetDone ==
    /\ pc = "returned"
    /\ call_name \in {"reset_state", "distributed_reset_state"}

\* the snapshot a lone reset request supplies (NoState when it supplies none)
SuppliedSnapshot ==
    IF call_name = "reset_state" THEN call_args.new_state
    ELSE call_args.gray_state

\* C11: after a reset with policy 'zero' the live state is the zero state
\* whatever it was before; with policy 'continue' it is what it was before
\* the call; with policy 'gray' and a supplied snapshot it is that snapshot.
C11_ResetPolicies ==
    ResetDone =>
        /\ call_args.reset_type = "zero" =>
              /\ call_result.raised = "none"
              /\ call_result.state = zero_state
        /\ call_args.reset_type = "continue" =>
              /\ call_result.raised = "none"
              /\ call_result.state = call_args.live
        /\ (call_args.reset_type = "gray" /\ SuppliedSnapshot # NoState) =>
              /\ call_result.raised = "none"
              /\ call_result.state = SuppliedSnapshot

\* distributed_reset_state('continue', gray_state=0) returned with the live
\* state 1 it was called on
C11_Witness ==
    /\ ResetDone
    /\ call_name = "distributed_reset_state"
    /\ call_args.reset_type = "continue"
    /\ call_args.live = 1 /\ call_args.gray_state = 0
    /\ call_result.state = 1

\* C12: a reset request whose policy name is none of 'zero', 'gray',
\* 'continue' raises an error and leaves the live state as it was.
C12_UnknownPolicyRaises ==
    (ResetDone /\ call_args.reset_type \notin {"zero", "gray", "continue"}) =>
        /\ call_result.raised = "ValueError"
        /\ call_result.state = call_args.live

\* distributed_reset_state('grey') raised on the live state 1
C12_Witness ==
    /\ ResetDone
    /\ call_name = "distributed_reset_state"
    /\ call_args.reset_type = "grey"
    /\ call_args.live = 1
    /\ call_result.raised = "ValueError"

\* a transition of distributed_validation_step
IsValidationStep == pc = "validation_step" /\ vstep' = vstep + 1

\* C13: a validation step applies no gradients and leaves the trainable
\* parameters, the optimizer (no apply_gradients round), the chunk scheduler
\* state and the training metrics unchanged; it updates the validation
\* metrics and overwrites the live state with the state its forward pass,
\* started from the live state, produced.
C13_ValidationStepFrame ==
    [][IsValidationStep =>
        /\ params' = params
        /\ grad_rounds' = grad_rounds
        /\ chunknum' = chunknum
        /\ max_working_fr' = max_working_fr
        /\ train_firing_rate' = train_firing_rate
        /\ gray_state' = gray_state
        /\ val_firing_rate'.count = val_firing_rate.count + 1
        /\ val_firing_rate'.total \in
              {val_firing_rate.total + r : r \in Rates}
        /\ last_call'[1].read = state_variables
        /\ state_variables' = last_call'[1].written]_vars

\* a validation step ran at chunknum 2 after a training step of two gradient
\* rounds, from the gray state 1 to the state 0, and recorded the rate 1
C13_Witness ==
    /\ pc = "epoch_end"
    /\ chunknum = 2
    /\ params = 2
    /\ last_call = <<Call(TRUE, 1, 0)>>
    /\ state_variables = 0
    /\ val_firing_rate = update_state(EmptyMean, 1)

C20_RetryStartsFromStepState ==
    [][(IsTrainStep /\ j = 0 /\ attempt >= 1 /\ ~reset_every_step) =>
        last_call'[1].read = gray_state]_vars

\* C14 (as claimed): for every training chunk the rate-distribution and OSI
\* losses are computed, and on the chunk trimmed by pre_delay/post_delay
\* exactly when the step runs at chunknum 1; at chunknum > 1 they are
\* computed on the whole, untrimmed chunk.
C14_TrimIffSingleChunk ==
    (pc = "returned" /\ call_name \in {"rate_loss", "osi_loss"}) =>
        /\ call_result.raised = "none"
        /\ call_result.value =
             IF call_args.chunknum = 1
             THEN trim_spikes(ChunkSteps, call_args.pre_delay,
                              call_args.post_delay)
             ELSE ChunkSteps

\* C16 (as claimed): the voltage regularizer returns 0 when every normalized
\* voltage (v - offset) / scale it is given lies in [-1, 1]; in general it is
\* voltage_cost times the mean over rows of the sum over neurons of the
\* squared excess above +1 plus the squared excess below -1.
C16_VoltageBarriers ==
    (pc = "returned" /\ call_name = "VoltageRegularization") =>
        LET kept == [b \in DOMAIN call_args.voltages |->
                        IF call_args.core_mask.present
                        THEN boolean_mask(call_args.voltages[b],
                                          call_args.core_mask.mask)
                        ELSE call_args.voltages[b]]
            normalized(v) ==
                Rat(v - call_args.voltage_offset, call_args.voltage_scale)
            above(x) == relu(FloatSub(x, Rat(1, 1)))
            below(x) == relu(FloatSub(Rat(0 - 1, 1), x))
            excess == [b \in DOMAIN kept |->
                          reduce_sum([i \in DOMAIN kept[b] |->
                              FloatAdd(square(above(normalized(kept[b][i]))),
                                       square(below(normalized(kept[b][i]))))])]
            in_range == \A b \in DOMAIN kept : \A i \in DOMAIN kept[b] :
                            /\ ~FloatLess(normalized(kept[b][i]), Rat(0 - 1, 1))
                            /\ ~FloatLess(Rat(1, 1), normalized(kept[b][i]))
        IN /\ in_range => call_result.value = Rat(0, 1)
           /\ call_result.value = FloatMul(reduce_mean(excess), voltage_cost)

\* C17 (as claimed): for any stim_angle and tuning_angle,
\* calculate_delta_angle returns a value in [-90, 90] that differs from
\* stim_angle - tuning_angle by an integer multiple of 180.
C17_DeltaAngleWrapped ==
    (pc = "returned" /\ call_name = "calculate_delta_angle") =>
        /\ call_result.value >= 0 - 90
        /\ call_result.value <= 90
        /\ (call_result.value
              - (call_args.stim_angle - call_args.tuning_angle)) % 180 = 0

\* the rate loss called alone has returned
RateDone == pc = "returned" /\ call_name = "compute_spike_rate_target_loss"

\* the other cell type
other(key) == IF key = "a" THEN "b" ELSE "a"

\* C18 (as claimed): a cell type with no eligible neurons (empty neuron_ids,
\* empty sorted_target_rates) contributes exactly zero to the summed rate
\* loss and no error is raised: the total is the other type's contribution.
C18_EmptyTypeContributesZero ==
    RateDone =>
        \A key \in CellTypes :
            call_args.target_rates[key].neuron_ids = <<>> =>
                /\ call_result.raised = "none"
                /\ call_result.per_type[key].loss = Rat(0, 1)
                /\ call_result.value = call_result.per_type[other(key)].loss

\* C19 (as claimed): with a core mask, the rates compared against a cell
\* type's targets are the mean rates of the neurons whose global indices are
\* in both the type's neuron_ids and the core, and the targets are those the
\* same mask keeps.
C19_CoreRatesAreTypeNeurons ==
    (RateDone /\ call_args.core_mask.present) =>
        \A key \in CellTypes :
            LET value == call_args.target_rates[key]
                in_core == [k \in DOMAIN value.neuron_ids |->
                               call_args.core_mask.mask[value.neuron_ids[k]]]
            IN /\ call_result.per_type[key].gathered =
                    boolean_mask(value.neuron_ids, in_core)
               /\ call_result.per_type[key].target_rate =
                    boolean_mask(value.sorted_target_rates, in_core)

\* C21 (as claimed): the training metrics a step reads out aggregate exactly
\* the chunks of its final, successful chunk loop: while the step runs, the
\* firing-rate metric holds one sample per chunk completed in the current
\* attempt (chunknum samples at the read-out), none from an attempt aborted
\* by a ResourceExhaustedError and none from an earlier step.
C21_MetricsOfFinalAttemptOnly ==
    pc \in {"chunk_loop", "step_end"} =>
        /\ train_firing_rate.count = j
        /\ pc = "step_end" => train_firing_rate.count = chunknum

====
